---- MODULE Spec2Model ----
(***************************************************************************)
(* Feature-subset search of the three notebooks                            *)
(*   Feature_Selection_by_Complete_Enumeration.ipynb  (exhaustive)         *)
(*   Forward_Stepwise_Feature_Selection.ipynb         (forward)            *)
(*   Backward_Stepwise_Feature_Selection.ipynb        (backward)           *)
(* Each notebook owns a Solution object (the best-solution tracker) and a  *)
(* loop that calls the cross-validation scorer on candidate subsets.       *)
(*                                                                         *)
(* Feature labels are integers.  Label 0 stands for a label that Python    *)
(* treats as false (0, ''); labels 1, 2, ... stand for non-empty strings   *)
(* such as the column names pandas.read_csv produces.  Scores are natural  *)
(* numbers; 0 is the float 0.0, which Python treats as false.              *)
(* The scorer (cross_val_score over a fitted pipeline) is external: its    *)
(* value on a subset is chosen when the subset is first scored and is the  *)
(* same on every later call with the same set of features.                 *)
(***************************************************************************)
EXTENDS Naturals, Integers, Sequences, FiniteSets, TLC

\* ---------------------------------------------------------------- bounds
\* largest feature universe of the stepwise searches
MaxFeatures == 3
\* largest feature universe of the exhaustive search (2^p - 1 scorer calls)
MaxFeaturesExh == 2
\* scores and baselines range over 0..MaxScore
MaxScore == 2

\* ------------------------------------------------------ program constants
\* float('Inf'), the class-level default of Solution.mse
Inf == 1000
\* None, the per-round initial value of selected_feature / removed_feature
NoneVal == -1

\* float('nan'), a score numpy can hand back; it is not a number of the
\* score scale and compares false with everything
NaN == -2

Strategies == {"exhaustive", "forward", "backward"}
Scores == 0..MaxScore
\* the scores that are not finite numbers: nan and float('Inf')
NonFinite == {NaN, Inf}

VARIABLES
  strategy,          \* which notebook is running
  all_features,      \* features / all_features: the universe, a list
  baseline,          \* mean_squared_error(y, [y.mean()] * len(y))
  pc,                \* position in the notebook cell
  best_features,     \* best.features
  best_mse,          \* best.mse
  best_is_current,   \* best.features is the same list object as current_features
  current_features,  \* current_features (forward, backward)
  selected_feature,  \* selected_feature (forward)
  removed_feature,   \* removed_feature (backward)
  remaining,         \* features the forward for-loop has still to visit
  idx,               \* position of the backward for-loop in current_features
  n_features,        \* n_features of the exhaustive outer loop
  subsets,           \* what the combinations generator has still to yield
  evaluated,         \* the scorer calls of the run so far, as a set
  n_calls,           \* how many scorer calls the run has made so far
  round_calls,       \* the scorer calls of the running round, in order
  ret,               \* value returned by the last best.update call
  given_scores,      \* scores the dataset fixes in advance ({}: any scores)
  rerun              \* the last round is being run again after convergence

vars == <<strategy, all_features, baseline, pc, best_features, best_mse,
          best_is_current, current_features, selected_feature,
          removed_feature, remaining, idx, n_features, subsets, evaluated,
          n_calls, round_calls, ret, given_scores, rerun>>

\* ---------------------------------------------------------------- helpers
Range(s) == {s[i] : i \in 1..Len(s)}

\* Python truth value of a feature label or of None
Truthy(v) == v # NoneVal /\ v # 0

\* Python truth value of a list
TruthyList(s) == Len(s) > 0

\* Python truth value of a float score
TruthyScore(m) == m # 0

\* a for-loop over all the features, those already added included
RemainingAll(all, cur) == Range(all)

\* set(all_features) - set(current_features)
RemainingFeatures(all, cur) == Range(all) \ Range(cur)

\* a while-loop that stops at one feature: len(current_features) > 1
BwdContinuesAboveOne(cur) == Len(cur) > 1

\* while len(current_features) > 0
BwdContinues(cur) == Len(cur) > 0

\* while current_features != all_features (lists are compared in order)
FwdContinues(cur, all) == cur # all

\* list(features) for a universe of p labels starting at label lo
Universe(p, lo) == [i \in 1..p |-> lo + i - 1]

\* [f for f in s if f != x]
RECURSIVE Without(_, _)
Without(s, x) ==
  IF s = <<>> THEN <<>>
  ELSE IF Head(s) = x THEN Without(Tail(s), x)
       ELSE <<Head(s)>> \o Without(Tail(s), x)

\* an append that is lost: the list stays as it was
AppendLost(s, x) == s

\* list.append(x)
ListAppend(s, x) == Append(s, x)

\* a removal that is lost: the list stays as it was
RemoveLost(s, x) == s

\* list.remove(x): drops the first occurrence of x
RECURSIVE RemoveFirst(_, _)
RemoveFirst(s, x) ==
  IF s = <<>> THEN <<>>
  ELSE IF Head(s) = x THEN Tail(s)
       ELSE <<Head(s)>> \o RemoveFirst(Tail(s), x)

\* s with x put in front of every element (an element is a tuple)
PrefixAll(x, ss) == [i \in 1..Len(ss) |-> <<x>> \o ss[i]]

\* a generator that yields the tuples without the first element before
\* those with it
RECURSIVE CombinationsTailFirst(_, _)
CombinationsTailFirst(s, k) ==
  IF k = 0 THEN << <<>> >>
  ELSE IF Len(s) < k THEN <<>>
       ELSE CombinationsTailFirst(Tail(s), k)
            \o PrefixAll(Head(s), CombinationsTailFirst(Tail(s), k - 1))

\* itertools.combinations(s, k): the k-tuples of s in lexicographic order
\* of positions
RECURSIVE Combinations(_, _)
Combinations(s, k) ==
  IF k = 0 THEN << <<>> >>
  ELSE IF Len(s) < k THEN <<>>
       ELSE PrefixAll(Head(s), Combinations(Tail(s), k - 1))
            \o Combinations(Tail(s), k)

\* range(1, len(features)): the loop stops one size short
LastSizeShort(fs) == Len(fs) - 1

\* range(1, len(features)+1): the last subset size of the exhaustive loop
LastSize(fs) == Len(fs)

\* a scorer whose cross-validation folds are not seeded: any score on any call
OracleValuesUnseeded(s) == Scores

\* the values the scorer can return on the list s: the score the dataset
\* fixes for its features, else any score the first time a set of features
\* is scored and the same score afterwards
OracleValues(s) ==
  IF \E c \in evaluated : Range(c.subset) = Range(s)
  THEN {c.mse : c \in {d \in evaluated : Range(d.subset) = Range(s)}}
  ELSE IF \E g \in given_scores : g.features = Range(s)
       THEN {g.mse : g \in {h \in given_scores : h.features = Range(s)}}
       ELSE Scores

\* ------------------------------------------------------ Solution (tracker)
\* a tracker that also takes a candidate whose score ties the stored one
ImprovesOrTies(mse, stored) == mse <= stored

\* a tracker that takes the candidate with the higher score
ImprovesUpward(mse, stored) == mse > stored

\* Python's a < b on floats: false as soon as one side is nan
FloatLess(a, b) == a # NaN /\ b # NaN /\ a < b

\* Python's a >= b on floats: false as soon as one side is nan
FloatGreaterEqual(a, b) == a # NaN /\ b # NaN /\ a >= b

\* a test written the other way round: if not (mse >= self.mse)
ImprovesNotGreaterEqual(mse, stored) == ~FloatGreaterEqual(mse, stored)

\* the test of Solution.update: if mse < self.mse
Improves(mse, stored) == FloatLess(mse, stored)

\* an update that forgets "self.features = features"
UpdateFeaturesForgotten(fs, mse) == best_features

\* Solution.update: the tracker after the call, and the returned value
UpdateFeatures(fs, mse) == IF Improves(mse, best_mse) THEN fs ELSE best_features
\* an update that forgets "self.mse = mse"
UpdateMseForgotten(mse) == best_mse

UpdateMse(mse) == IF Improves(mse, best_mse) THEN mse ELSE best_mse
UpdateReturn(mse) == Improves(mse, best_mse)

\* a round that keeps the first improving feature instead of the last
SelectedFeatureFirst(feature, improved, previous) ==
  IF improved /\ previous = NoneVal THEN feature ELSE previous

\* forward: if best.update(new_features, mse): selected_feature = feature
SelectedFeature(feature, improved, previous) ==
  IF improved THEN feature ELSE previous

\* a round that keeps the first improving removal instead of the last
RemovedFeatureFirst(feature, improved, previous) ==
  IF improved /\ previous = NoneVal THEN feature ELSE previous

\* backward: if best.update(new_features, mse): removed_feature = feature
RemovedFeature(feature, improved, previous) ==
  IF improved THEN feature ELSE previous

\* a constructor that leaves mse at the class default float('Inf')
InitMseDefault(b) == Inf

\* Solution.__init__(y) of the exhaustive and forward notebooks: features is
\* left at the class default, mse becomes the baseline
InitMse(b) == b

\* Solution.__init__(y, features, mse) of the backward notebook
UsesGiven(fs, mse) == TruthyList(fs) /\ TruthyScore(mse)

\* ------------------------------------------------------------------- Init
\* the notebook before the search cell runs: class Solution with its
\* class-level defaults, no loop variable set, no scorer call made
InitState ==
  /\ pc = "start"
  /\ best_features = <<>>
  /\ best_mse = Inf
  /\ best_is_current = FALSE
  /\ current_features = <<>>
  /\ selected_feature = NoneVal
  /\ removed_feature = NoneVal
  /\ remaining = {}
  /\ idx = 0
  /\ n_features = 0
  /\ subsets = <<>>
  /\ evaluated = {}
  /\ n_calls = 0
  /\ round_calls = <<>>
  /\ ret = FALSE
  /\ rerun = FALSE

\* universes of sizes..MaxFeatures whose labels start at a label of lows,
\* any baseline, any scores
InitSized(sizes, lows) ==
  /\ strategy \in Strategies
  /\ \E p \in sizes : \E lo \in lows :
       /\ p <= MaxFeatures
       /\ strategy = "exhaustive" => p <= MaxFeaturesExh
       /\ all_features = Universe(p, lo)
  /\ baseline \in Scores
  /\ given_scores = {}
  /\ InitState

InitWith(lows) == InitSized(1..MaxFeatures, lows)

\* column labels as pandas.read_csv yields them: non-empty strings
Init == InitWith({1})

\* any labels, a label that Python treats as false included
InitOpaque == InitWith({0, 1})

\* ---------------------------------------------------------------- actions
\* one scorer call, as recorded in evaluated
Scored(fs, mse) == [subset |-> fs, mse |-> mse]

\* one scorer call of a round, as recorded in round_calls: the list scored,
\* its score, the feature the for-loop was visiting, what update returned
Call(fs, mse, feature, improved) ==
  [subset |-> fs, mse |-> mse, feature |-> feature, improved |-> improved]

\* best.update(fs, mse) on the result of scoring fs while visiting feature
ScoreAndUpdate(fs, feature) ==
  \E mse \in OracleValues(fs) :
    /\ best_features' = UpdateFeatures(fs, mse)
    /\ best_mse' = UpdateMse(mse)
    /\ ret' = UpdateReturn(mse)
    /\ evaluated' = evaluated \cup {Scored(fs, mse)}
    /\ n_calls' = n_calls + 1
    /\ round_calls' = Append(round_calls, Call(fs, mse, feature, UpdateReturn(mse)))

\* exhaustive, forward: best = Solution(y)
ConstructFromBaseline ==
  /\ pc = "start"
  /\ strategy \in {"exhaustive", "forward"}
  /\ best_mse' = InitMse(baseline)
  /\ current_features' = <<>>
  /\ pc' = IF strategy = "exhaustive" THEN "exh_for" ELSE "fwd_while"
  /\ UNCHANGED <<given_scores, rerun,
                 strategy, all_features, baseline, best_features,
                 best_is_current, selected_feature, removed_feature,
                 remaining, idx, n_features, subsets, evaluated, n_calls,
                 round_calls, ret>>

\* backward: current_features = list(features);
\* best = Solution(y, features=current_features, mse=<score of all features>)
ConstructBackward ==
  /\ pc = "start"
  /\ strategy = "backward"
  /\ current_features' = all_features
  /\ \E mse \in OracleValues(all_features) :
       /\ evaluated' = {Scored(all_features, mse)}
       /\ n_calls' = 1
       /\ IF UsesGiven(all_features, mse)
          THEN /\ best_features' = all_features
               /\ best_mse' = mse
               /\ best_is_current' = TRUE
          ELSE /\ best_features' = <<>>
               /\ best_mse' = InitMse(baseline)
               /\ best_is_current' = FALSE
  /\ pc' = "bwd_while"
  /\ UNCHANGED <<given_scores, rerun,
                 strategy, all_features, baseline, selected_feature,
                 removed_feature, remaining, idx, n_features, subsets,
                 round_calls, ret>>

\* exhaustive: for n_features in range(1, len(features)+1):
\*                 subsets = combinations(features, n_features)
ExhNextSize ==
  /\ pc = "exh_for"
  /\ subsets = <<>>
  /\ n_features < LastSize(all_features)
  /\ n_features' = n_features + 1
  /\ subsets' = Combinations(all_features, n_features + 1)
  /\ UNCHANGED <<given_scores, rerun,
                 strategy, all_features, baseline, pc, best_features, best_mse,
                 best_is_current, current_features, selected_feature,
                 removed_feature, remaining, idx, evaluated, n_calls,
                 round_calls, ret>>

\* exhaustive: one pass of "for subset in subsets"
ExhEvaluate ==
  /\ pc = "exh_for"
  /\ subsets # <<>>
  /\ ScoreAndUpdate(Head(subsets), NoneVal)
  /\ subsets' = Tail(subsets)
  /\ UNCHANGED <<given_scores, rerun,
                 strategy, all_features, baseline, pc, best_is_current,
                 current_features, selected_feature, removed_feature,
                 remaining, idx, n_features>>

\* exhaustive: the outer loop runs out of sizes
ExhDone ==
  /\ pc = "exh_for"
  /\ subsets = <<>>
  /\ n_features >= LastSize(all_features)
  /\ pc' = "done"
  /\ UNCHANGED <<given_scores, rerun,
                 strategy, all_features, baseline, best_features, best_mse,
                 best_is_current, current_features, selected_feature,
                 removed_feature, remaining, idx, n_features, subsets,
                 evaluated, n_calls,
                 round_calls, ret>>

\* forward: while current_features != all_features: selected_feature = None
\* and the for-loop takes set(all_features) - set(current_features)
FwdRound ==
  /\ pc = "fwd_while"
  /\ FwdContinues(current_features, all_features)
  /\ selected_feature' = NoneVal
  /\ remaining' = RemainingFeatures(all_features, current_features)
  /\ pc' = "fwd_for"
  /\ UNCHANGED <<given_scores, rerun,
                 strategy, all_features, baseline, best_features, best_mse,
                 best_is_current, current_features, removed_feature, idx,
                 n_features, subsets, evaluated, n_calls,
                 round_calls, ret>>

\* forward: the while condition is false
FwdExhausted ==
  /\ pc = "fwd_while"
  /\ ~FwdContinues(current_features, all_features)
  /\ pc' = "exhausted"
  /\ UNCHANGED <<given_scores, rerun,
                 strategy, all_features, baseline, best_features, best_mse,
                 best_is_current, current_features, selected_feature,
                 removed_feature, remaining, idx, n_features, subsets,
                 evaluated, n_calls,
                 round_calls, ret>>

\* forward: one pass of the for-loop; a set is visited in any order
FwdTry ==
  /\ pc = "fwd_for"
  /\ \E feature \in remaining :
       /\ ScoreAndUpdate(Append(current_features, feature), feature)
       /\ selected_feature' = SelectedFeature(feature, ret', selected_feature)
       /\ remaining' = remaining \ {feature}
  /\ UNCHANGED <<given_scores, rerun,
                 strategy, all_features, baseline, pc, best_is_current,
                 current_features, removed_feature, idx, n_features, subsets>>

\* forward: if selected_feature: current_features.append(selected_feature)
FwdAdd ==
  /\ pc = "fwd_for"
  /\ remaining = {}
  /\ Truthy(selected_feature)
  /\ current_features' = ListAppend(current_features, selected_feature)
  /\ round_calls' = <<>>
  /\ pc' = "fwd_while"
  /\ UNCHANGED <<given_scores, rerun,
                 strategy, all_features, baseline, best_features, best_mse,
                 best_is_current, selected_feature, removed_feature, remaining,
                 idx, n_features, subsets, evaluated, n_calls,
                 ret>>

\* forward: else: break
FwdBreak ==
  /\ pc = "fwd_for"
  /\ remaining = {}
  /\ ~Truthy(selected_feature)
  /\ pc' = "converged"
  /\ UNCHANGED <<given_scores, rerun,
                 strategy, all_features, baseline, best_features, best_mse,
                 best_is_current, current_features, selected_feature,
                 removed_feature, remaining, idx, n_features, subsets,
                 evaluated, n_calls,
                 round_calls, ret>>

\* backward: while len(current_features) > 0: removed_feature = None
BwdRound ==
  /\ pc = "bwd_while"
  /\ BwdContinues(current_features)
  /\ removed_feature' = NoneVal
  /\ idx' = 1
  /\ pc' = "bwd_for"
  /\ UNCHANGED <<given_scores, rerun,
                 strategy, all_features, baseline, best_features, best_mse,
                 best_is_current, current_features, selected_feature,
                 remaining, n_features, subsets, evaluated, n_calls,
                 round_calls, ret>>

\* backward: the while condition is false
BwdExhausted ==
  /\ pc = "bwd_while"
  /\ ~BwdContinues(current_features)
  /\ pc' = "exhausted"
  /\ UNCHANGED <<given_scores, rerun,
                 strategy, all_features, baseline, best_features, best_mse,
                 best_is_current, current_features, selected_feature,
                 removed_feature, remaining, idx, n_features, subsets,
                 evaluated, n_calls,
                 round_calls, ret>>

\* backward: one pass of "for feature in current_features"
BwdTry ==
  /\ pc = "bwd_for"
  /\ idx <= Len(current_features)
  /\ LET feature == current_features[idx] IN
       /\ ScoreAndUpdate(Without(current_features, feature), feature)
       /\ removed_feature' = RemovedFeature(feature, ret', removed_feature)
       /\ best_is_current' = IF ret' THEN FALSE ELSE best_is_current
  /\ idx' = idx + 1
  /\ UNCHANGED <<given_scores, rerun,
                 strategy, all_features, baseline, pc, current_features,
                 selected_feature, remaining, n_features, subsets>>

\* backward: if removed_feature: current_features.remove(removed_feature)
\* (in place: a tracker that still holds this very list sees the removal)
BwdRemove ==
  /\ pc = "bwd_for"
  /\ idx > Len(current_features)
  /\ Truthy(removed_feature)
  /\ current_features' = RemoveFirst(current_features, removed_feature)
  /\ best_features' = IF best_is_current THEN current_features' ELSE best_features
  /\ round_calls' = <<>>
  /\ pc' = "bwd_while"
  /\ UNCHANGED <<given_scores, rerun,
                 strategy, all_features, baseline, best_mse, best_is_current,
                 selected_feature, removed_feature, remaining, idx, n_features,
                 subsets, evaluated, n_calls,
                 ret>>

\* backward: else: break
BwdBreak ==
  /\ pc = "bwd_for"
  /\ idx > Len(current_features)
  /\ ~Truthy(removed_feature)
  /\ pc' = "converged"
  /\ UNCHANGED <<given_scores, rerun,
                 strategy, all_features, baseline, best_features, best_mse,
                 best_is_current, current_features, selected_feature,
                 removed_feature, remaining, idx, n_features, subsets,
                 evaluated, n_calls,
                 round_calls, ret>>

Next ==
  \/ ConstructFromBaseline
  \/ ConstructBackward
  \/ ExhNextSize
  \/ ExhEvaluate
  \/ ExhDone
  \/ FwdRound
  \/ FwdExhausted
  \/ FwdTry
  \/ FwdAdd
  \/ FwdBreak
  \/ BwdRound
  \/ BwdExhausted
  \/ BwdTry
  \/ BwdRemove
  \/ BwdBreak

Spec == Init /\ [][Next]_vars

\* backward on an empty universe: cross_val_score is called on a table
\* without columns; the library either raises out of that call (no tracker
\* is built) or returns a score, which ConstructBackward covers
ConstructBackwardFails ==
  /\ pc = "start"
  /\ strategy = "backward"
  /\ all_features = <<>>
  /\ current_features' = all_features
  /\ n_calls' = n_calls + 1
  /\ pc' = "failed"
  /\ UNCHANGED <<given_scores, rerun, strategy, all_features, baseline,
                 best_features, best_mse, best_is_current, selected_feature,
                 removed_feature, remaining, idx, n_features, subsets,
                 evaluated, round_calls, ret>>

\* a dataset may hold the label column only: universes of size 0 and more
InitAnySize == InitSized(0..MaxFeatures, {1})

NextAnySize ==
  \/ Next
  \/ ConstructBackwardFails

SpecAnySize == InitAnySize /\ [][NextAnySize]_vars

\* a sentinel score 0.0 put in place of the score of a call that raised
StoredAfterFailureSentinel(stored) == 0

\* the scorer call is in no try block: when it raises, the assignment to mse
\* and the best.update call below it are not run, the tracker stays as it was
StoredAfterFailure(stored) == stored

\* the scorer has not returned a score for the features of s yet
NotScoredYet(s) == \A c \in evaluated : Range(c.subset) # Range(s)

\* exhaustive: cross_val_score raises on the subset the for-loop is at
ExhScoreFails ==
  /\ pc = "exh_for"
  /\ subsets # <<>>
  /\ NotScoredYet(Head(subsets))
  /\ n_calls' = n_calls + 1
  /\ best_mse' = StoredAfterFailure(best_mse)
  /\ pc' = "failed"
  /\ UNCHANGED <<given_scores, rerun, strategy, all_features, baseline,
                 best_features, best_is_current, current_features,
                 selected_feature, removed_feature, remaining, idx,
                 n_features, subsets, evaluated, round_calls, ret>>

\* forward: cross_val_score raises on a candidate of the for-loop
FwdScoreFails ==
  /\ pc = "fwd_for"
  /\ \E feature \in remaining :
       NotScoredYet(Append(current_features, feature))
  /\ n_calls' = n_calls + 1
  /\ best_mse' = StoredAfterFailure(best_mse)
  /\ pc' = "failed"
  /\ UNCHANGED <<given_scores, rerun, strategy, all_features, baseline,
                 best_features, best_is_current, current_features,
                 selected_feature, removed_feature, remaining, idx,
                 n_features, subsets, evaluated, round_calls, ret>>

\* backward: cross_val_score raises on a candidate of the for-loop
BwdScoreFails ==
  /\ pc = "bwd_for"
  /\ idx <= Len(current_features)
  /\ NotScoredYet(Without(current_features, current_features[idx]))
  /\ n_calls' = n_calls + 1
  /\ best_mse' = StoredAfterFailure(best_mse)
  /\ pc' = "failed"
  /\ UNCHANGED <<given_scores, rerun, strategy, all_features, baseline,
                 best_features, best_is_current, current_features,
                 selected_feature, removed_feature, remaining, idx,
                 n_features, subsets, evaluated, round_calls, ret>>

\* backward: cross_val_score raises on the full universe, inside the
\* argument list of Solution(...): no tracker is built
BwdFirstScoreFails ==
  /\ pc = "start"
  /\ strategy = "backward"
  /\ all_features # <<>>
  /\ current_features' = all_features
  /\ n_calls' = n_calls + 1
  /\ pc' = "failed"
  /\ UNCHANGED <<given_scores, rerun, strategy, all_features, baseline,
                 best_features, best_mse, best_is_current, selected_feature,
                 removed_feature, remaining, idx, n_features, subsets,
                 evaluated, round_calls, ret>>

NextFailing ==
  \/ Next
  \/ ExhScoreFails
  \/ FwdScoreFails
  \/ BwdScoreFails
  \/ BwdFirstScoreFails

\* the searches with a scorer that may raise on a subset
SpecFailing == Init /\ [][NextFailing]_vars

\* the notebook is one sequential cell: a step that can be taken is taken
SpecFair == Init /\ [][Next]_vars /\ WF_vars(Next)

\* a scorer that may hand back any score, nan and float('Inf') included, on
\* any subset of fs
AnyScores(fs) ==
  {[features |-> S, mse |-> m] :
     S \in SUBSET Range(fs), m \in Scores \cup NonFinite}

\* the three searches on a small universe, scores that are not finite
\* included
InitNonFinite ==
  /\ strategy \in Strategies
  /\ \E p \in 1..MaxFeaturesExh : all_features = Universe(p, 1)
  /\ baseline \in Scores
  /\ given_scores = AnyScores(all_features)
  /\ InitState

SpecNonFinite == InitNonFinite /\ [][Next]_vars

\* the scorer of the worked example: score(subset) = 10 - |subset|
ToyScore(S) == 10 - Cardinality(S)

\* the worked example as a dataset: every subset of fs with its score
ToyScores(fs) ==
  {[features |-> S, mse |-> ToyScore(S)] : S \in SUBSET Range(fs)}

\* exhaustive and forward search on the worked example: the baseline is the
\* score of the empty subset
InitToy ==
  /\ strategy \in {"exhaustive", "forward"}
  /\ \E p \in 1..MaxFeatures : all_features = Universe(p, 1)
  /\ baseline = ToyScore({})
  /\ given_scores = ToyScores(all_features)
  /\ InitState

\* the exhaustive and the forward notebook
NextToy ==
  \/ ConstructFromBaseline
  \/ ExhNextSize
  \/ ExhEvaluate
  \/ ExhDone
  \/ FwdRound
  \/ FwdExhausted
  \/ FwdTry
  \/ FwdAdd
  \/ FwdBreak

SpecToy == InitToy /\ [][NextToy]_vars

\* the non-empty subsets of the features of fs
NonEmptySubsets(fs) == (SUBSET Range(fs)) \ {{}}

\* a dataset as a table: the score f gives to each subset
ScoreTable(f) == {[features |-> S, mse |-> f[S]] : S \in DOMAIN f}

\* exhaustive and forward search on one and the same dataset: the score of
\* every non-empty subset is fixed before the search starts
InitFixed ==
  /\ strategy \in {"exhaustive", "forward"}
  /\ \E p \in 1..MaxFeaturesExh : all_features = Universe(p, 1)
  /\ baseline \in Scores
  /\ given_scores \in
       {ScoreTable(f) : f \in [NonEmptySubsets(all_features) -> Scores]}
  /\ InitState

SpecFixed == InitFixed /\ [][NextToy]_vars

\* forward: the body of the while-loop is run once more after the break
FwdRerun ==
  /\ strategy = "forward"
  /\ pc = "converged"
  /\ ~rerun
  /\ rerun' = TRUE
  /\ selected_feature' = NoneVal
  /\ remaining' = RemainingFeatures(all_features, current_features)
  /\ round_calls' = <<>>
  /\ pc' = "fwd_for"
  /\ UNCHANGED <<given_scores, strategy, all_features, baseline,
                 best_features, best_mse, best_is_current, current_features,
                 removed_feature, idx, n_features, subsets, evaluated,
                 n_calls, ret>>

\* backward: the body of the while-loop is run once more after the break
BwdRerun ==
  /\ strategy = "backward"
  /\ pc = "converged"
  /\ ~rerun
  /\ rerun' = TRUE
  /\ removed_feature' = NoneVal
  /\ idx' = 1
  /\ round_calls' = <<>>
  /\ pc' = "bwd_for"
  /\ UNCHANGED <<given_scores, strategy, all_features, baseline,
                 best_features, best_mse, best_is_current, current_features,
                 selected_feature, remaining, n_features, subsets, evaluated,
                 n_calls, ret>>

NextRerun ==
  \/ Next
  \/ FwdRerun
  \/ BwdRerun

\* the searches, with the last round run once more after convergence
SpecRerun == Init /\ [][NextRerun]_vars

SpecOpaque == InitOpaque /\ [][Next]_vars

\* ------------------------------------------------------------- properties
Last(s) == s[Len(s)]

MinOf(S) == CHOOSE m \in S : \A x \in S : m <= x

\* the scores of all subsets scored so far in the run
CalledScores == {c.mse : c \in evaluated}

\* a step in which best.update was called (every scorer call but the one
\* that builds the backward tracker is followed by update)
UpdateStep == pc # "start" /\ n_calls' = n_calls + 1

\* C1: update(subset, score) stores (subset, score) and returns true exactly
\* when score is strictly below the stored score; otherwise, ties included,
\* it returns false and leaves the stored subset and score as they were.
C1_UpdateContract ==
  [][UpdateStep =>
       LET c == Last(round_calls') IN
         IF c.mse < best_mse
         THEN ret' = TRUE /\ best_features' = c.subset /\ best_mse' = c.mse
         ELSE ret' = FALSE /\ best_features' = best_features
              /\ best_mse' = best_mse]_vars

\* an update with a score equal to the stored one has just been refused,
\* after an earlier candidate had been stored
C1_Witness ==
  /\ Len(round_calls) >= 2
  /\ ret = FALSE
  /\ Last(round_calls).mse = best_mse
  /\ best_features # <<>>
  /\ best_features # Last(round_calls).subset

\* C2: in every state of every run the stored score is the minimum of the
\* scores of all subsets scored so far, or the baseline if none of them has
\* beaten the baseline.
C2_StoredIsMinimum ==
  pc # "start" =>
    \/ CalledScores # {} /\ best_mse = MinOf(CalledScores)
    \/ (\A m \in CalledScores : ~(m < baseline)) /\ best_mse = baseline

\* C3: on a universe of p distinct features the exhaustive search scores
\* every non-empty subset exactly once, never the empty one, and has made
\* exactly 2^p - 1 calls when it finishes, whatever the scores.
C3_ExhaustiveCompleteness ==
  strategy = "exhaustive" =>
    /\ \A i \in 1..Len(round_calls) : round_calls[i].subset # <<>>
    /\ \A i, j \in 1..Len(round_calls) :
         Range(round_calls[i].subset) = Range(round_calls[j].subset) => i = j
    /\ n_calls = Len(round_calls)
    /\ pc = "done" =>
         /\ n_calls = 2 ^ Len(all_features) - 1
         /\ {Range(c.subset) : c \in evaluated}
              = (SUBSET Range(all_features)) \ {{}}

\* the exhaustive search has finished on two features although its first
\* call already reached the lowest score there is
C3_Witness ==
  /\ strategy = "exhaustive"
  /\ pc = "done"
  /\ Len(all_features) = 2
  /\ n_calls = 3
  /\ round_calls[1].mse = 0
  /\ round_calls[1].improved

\* C4: when the exhaustive search finishes, the stored score is the minimum
\* of the baseline and the scores of all non-empty subsets, and the stored
\* subset achieves it (the empty subset when nothing beats the baseline).
C4_ExhaustiveGlobalBest ==
  (strategy = "exhaustive" /\ pc = "done") =>
    /\ \A S \in (SUBSET Range(all_features)) \ {{}} :
         \E c \in evaluated : Range(c.subset) = S
    /\ best_mse = MinOf({baseline} \cup CalledScores)
    /\ IF \E m \in CalledScores : m < baseline
       THEN \E c \in evaluated : c.subset = best_features /\ c.mse = best_mse
       ELSE best_features = <<>> /\ best_mse = baseline

\* the exhaustive search has finished with a two-feature subset as the best
C4_Witness ==
  /\ strategy = "exhaustive"
  /\ pc = "done"
  /\ Len(best_features) = 2
  /\ best_mse < baseline

\* the positions of the running round whose update returned true
Improving(rc) == {i \in 1..Len(rc) : rc[i].improved}

\* the lowest score of the running round
RoundMin(rc) == MinOf({rc[i].mse : i \in 1..Len(rc)})

\* the last position of the running round whose update returned true
LastImproving(rc) ==
  CHOOSE i \in Improving(rc) : \A j \in Improving(rc) : j <= i

\* C5: in every forward round that adds a feature, the added feature is one
\* whose candidate (current subset plus the feature) has the lowest score of
\* all candidates of the round, and it is the feature of the last successful
\* update of the round.
C5_ForwardAddsBest ==
  [][(strategy = "forward"
        /\ Len(current_features') = Len(current_features) + 1) =>
       /\ Improving(round_calls) # {}
       /\ LET c == round_calls[LastImproving(round_calls)] IN
            /\ current_features' = Append(current_features, c.feature)
            /\ c.subset = Append(current_features, c.feature)
            /\ c.mse = RoundMin(round_calls)]_vars

\* a forward round in which two candidates scored below the stored score
\* has added the feature of the lower one
C5_Witness ==
  /\ strategy = "forward"
  /\ pc = "fwd_while"
  /\ Len(current_features) = 1
  /\ best_features = current_features
  /\ best_mse = 0
  /\ baseline = 2
  /\ \E c \in evaluated : c.mse = 1 /\ Len(c.subset) = 1

\* the forward for-loop has visited every remaining feature
FwdRoundOver == strategy = "forward" /\ pc = "fwd_for" /\ remaining = {}

\* C6: whatever the feature labels are, a forward round ends in Converged
\* if and only if no candidate of the round improved the tracker; when one
\* did, its feature is added to the current subset and a new round starts.
C6_ForwardConvergesIffNoImprovement ==
  [][(FwdRoundOver /\ pc' # pc) =>
       IF Improving(round_calls) = {}
       THEN pc' = "converged" /\ current_features' = current_features
       ELSE /\ pc' = "fwd_while"
            /\ current_features' =
                 Append(current_features,
                        round_calls[LastImproving(round_calls)].feature)]_vars

\* the backward for-loop has visited every feature of the current subset
BwdRoundOver ==
  strategy = "backward" /\ pc = "bwd_for" /\ idx > Len(current_features)

\* C7: a backward round tries the removal of every feature present; if a
\* removal improved the tracker, exactly the feature of the last improving
\* update, which gave the lowest score of the round, is dropped and a new
\* round starts; if none did, the search stops with the subset unchanged.
C7_BackwardRound ==
  [][(BwdRoundOver /\ pc' # pc) =>
       /\ Len(round_calls) = Len(current_features)
       /\ \A i \in 1..Len(round_calls) :
            /\ round_calls[i].feature = current_features[i]
            /\ Range(round_calls[i].subset)
                 = Range(current_features) \ {current_features[i]}
       /\ IF Improving(round_calls) = {}
          THEN pc' = "converged" /\ current_features' = current_features
          ELSE LET c == round_calls[LastImproving(round_calls)] IN
                 /\ pc' = "bwd_while"
                 /\ c.mse = RoundMin(round_calls)
                 /\ Len(current_features') = Len(current_features) - 1
                 /\ Range(current_features')
                      = Range(current_features) \ {c.feature}
                 /\ current_features' = c.subset]_vars

\* a backward round on three features in which two removals scored below
\* the stored score has dropped the feature of the lower one
C7_Witness ==
  /\ strategy = "backward"
  /\ pc = "bwd_while"
  /\ Len(all_features) = 3
  /\ Len(current_features) = 2
  /\ best_features = current_features
  /\ best_mse = 0
  /\ \E c \in evaluated : c.mse = 1 /\ Len(c.subset) = 2

\* C8: for every scorer with non-negative scores the backward search starts
\* with the full universe as current subset and with the tracker holding
\* (full universe, score of the full universe), never the baseline.
C8_BackwardStartsFromFullModel ==
  (strategy = "backward" /\ pc = "bwd_while" /\ n_calls = 1) =>
    /\ current_features = all_features
    /\ best_features = all_features
    /\ \E c \in evaluated : c.subset = all_features /\ c.mse = best_mse

\* C9: exhaustive and forward search start, before any scorer call, with the
\* tracker holding the empty subset and the baseline score, and forward
\* search with an empty current subset.
C9_StartsFromBaseline ==
  /\ pc = "start" => n_calls = 0
  /\ (strategy \in {"exhaustive", "forward"} /\ pc # "start" /\ n_calls = 0) =>
       /\ best_features = <<>>
       /\ best_mse = baseline
       /\ strategy = "forward" => current_features = <<>>

\* the forward search is about to make its first scorer call
C9_Witness ==
  /\ strategy = "forward"
  /\ pc = "fwd_for"
  /\ n_calls = 0
  /\ remaining = Range(all_features)
  /\ best_mse = baseline

\* C10: in each of the three searches the stored score never increases from
\* one update call to the next.
C10_ScoreNeverIncreases ==
  [][pc # "start" => best_mse' <= best_mse]_vars

\* the backward search has just lowered the stored score a second time
C10_Witness ==
  /\ strategy = "backward"
  /\ ret = TRUE
  /\ best_mse = 0
  /\ Len(best_features) = Len(all_features) - 2

\* the positions of the running round whose score is the lowest of the round
TiedForBest(rc) == {i \in 1..Len(rc) : rc[i].mse = RoundMin(rc)}

\* the first forward round ends by adding a feature after several
\* candidates tied at the best score, which beat the baseline
FirstRoundTieStep ==
  /\ strategy = "forward"
  /\ current_features = <<>>
  /\ Len(current_features') = 1
  /\ RoundMin(round_calls) < baseline
  /\ Cardinality(TiedForBest(round_calls)) >= 2

\* C11 as stated: when several first-round candidates tie at the best
\* baseline-improving score, the feature selected is that of the candidate
\* evaluated last among the tied ones.
C11_LastTiedSelected ==
  [][FirstRoundTieStep =>
       \E i \in TiedForBest(round_calls) :
         /\ \A j \in TiedForBest(round_calls) : j <= i
         /\ current_features'[1] = round_calls[i].feature]_vars

\* C11 as amended: when several first-round candidates tie at the best
\* baseline-improving score, the feature selected is that of the candidate
\* evaluated first among the tied ones (a later tie never updates).
C11_FirstTiedSelected ==
  [][FirstRoundTieStep =>
       \E i \in TiedForBest(round_calls) :
         /\ \A j \in TiedForBest(round_calls) : i <= j
         /\ current_features'[1] = round_calls[i].feature]_vars

\* the first forward round has added a feature although another candidate
\* of the round reached the same best score
C11_Witness ==
  /\ strategy = "forward"
  /\ pc = "fwd_while"
  /\ Len(current_features) = 1
  /\ best_mse < baseline
  /\ \E c \in evaluated :
       /\ Len(c.subset) = 1
       /\ c.subset # current_features
       /\ c.mse = best_mse

\* C13: in forward search the current subset grows by exactly one feature
\* on every Growing-to-Growing transition and never shrinks at any step.
C13_ForwardSizeGrowsByOne ==
  [][strategy = "forward" =>
       /\ Len(current_features') >= Len(current_features)
       /\ (pc = "fwd_for" /\ pc' = "fwd_while") =>
            Len(current_features') = Len(current_features) + 1]_vars

\* the forward search has gone through two Growing-to-Growing transitions
C13_Witness ==
  /\ strategy = "forward"
  /\ pc = "fwd_while"
  /\ Len(current_features) = 2
  /\ best_features = current_features

\* C14: in backward search the current subset shrinks by exactly one
\* feature on every Shrinking-to-Shrinking transition and never grows at
\* any step of the run (the construction of the full subset apart).
C14_BackwardSizeShrinksByOne ==
  [][(strategy = "backward" /\ pc # "start") =>
       /\ Len(current_features') <= Len(current_features)
       /\ (pc = "bwd_for" /\ pc' = "bwd_while") =>
            Len(current_features') = Len(current_features) - 1]_vars

\* the backward search has gone through two Shrinking-to-Shrinking
\* transitions
C14_Witness ==
  /\ strategy = "backward"
  /\ pc = "bwd_while"
  /\ Len(all_features) = 3
  /\ Len(current_features) = 1
  /\ best_features = current_features

\* C15: once forward or backward search has converged, running the same
\* round again from the final subset and tracker, with the same scorer,
\* changes neither the tracker's subset, nor its score, nor the current
\* subset, and the round ends in Converged again.
C15_RerunChangesNothing ==
  [][rerun' =>
       /\ best_features' = best_features
       /\ best_mse' = best_mse
       /\ current_features' = current_features
       /\ (rerun /\ pc = "fwd_for" /\ pc' # pc) => pc' = "converged"
       /\ (rerun /\ pc = "bwd_for" /\ pc' # pc) => pc' = "converged"]_vars

\* a search that had improved on its start has converged, run its last
\* round again with at least one scorer call, and converged again
C15_Witness ==
  /\ rerun
  /\ pc = "converged"
  /\ Len(round_calls) >= 2
  /\ Len(best_features) \in 1..(Len(all_features) - 1)
  /\ best_features = current_features

\* the forward search has left its while-loop
ForwardOver == strategy = "forward" /\ pc \in {"converged", "exhausted"}

\* C16: on the universe {A,B,C} with score(S) = 10 - |S| and baseline 10,
\* forward search under every iteration order adds all three features, one
\* per round, and ends with the tracker holding {A,B,C} and the score 7.
C16_ToyForwardSelectsAll ==
  ForwardOver =>
    /\ Range(best_features) = Range(all_features)
    /\ Len(best_features) = Len(all_features)
    /\ current_features = best_features
    /\ best_mse = ToyScore(Range(all_features))
    /\ 2 * n_calls = Len(all_features) * (Len(all_features) + 1)
    /\ Len(all_features) = 3 => best_mse = 7

\* forward search on {A,B,C} has finished after adding the features in an
\* order other than that of the universe
C16_Witness ==
  /\ ForwardOver
  /\ given_scores # {}
  /\ Len(all_features) = 3
  /\ current_features = <<3, 1, 2>>
  /\ best_mse = 7

\* C17: on a universe of one feature the exhaustive search makes exactly
\* one scorer call and ends with the tracker holding that feature and its
\* score if and only if the score is strictly below the baseline; otherwise
\* it ends with the empty subset and the baseline.
C17_SingletonUniverse ==
  (strategy = "exhaustive" /\ Len(all_features) = 1 /\ pc = "done") =>
    /\ n_calls = 1
    /\ Len(round_calls) = 1
    /\ round_calls[1].subset = all_features
    /\ IF round_calls[1].mse < baseline
       THEN best_features = all_features /\ best_mse = round_calls[1].mse
       ELSE best_features = <<>> /\ best_mse = baseline

\* the exhaustive search on one feature has finished and kept the baseline
\* because the feature's score only equals it
C17_Witness ==
  /\ strategy = "exhaustive"
  /\ Len(all_features) = 1
  /\ pc = "done"
  /\ n_calls = 1
  /\ round_calls[1].mse = baseline
  /\ best_features = <<>>

\* C18: for every universe and every scorer that always returns, forward
\* search terminates; it ends either Converged or with all p features in
\* the current subset; and once all p features have been added, in whatever
\* order, no further scorer call or tracker update happens.
C18_ForwardTerminates ==
  /\ (strategy = "forward") => <>ForwardOver
  /\ [](ForwardOver =>
          \/ pc = "converged"
          \/ Range(current_features) = Range(all_features))
  /\ [][(strategy = "forward"
           /\ Range(current_features) = Range(all_features)) =>
          /\ n_calls' = n_calls
          /\ best_features' = best_features
          /\ best_mse' = best_mse]_vars

\* forward search has ended Converged with all features added, in an order
\* other than that of the universe
C18_Witness ==
  /\ strategy = "forward"
  /\ pc = "converged"
  /\ Range(current_features) = Range(all_features)
  /\ current_features # all_features
  /\ Len(all_features) >= 2

\* the backward search has left its while-loop
BackwardOver == strategy = "backward" /\ pc \in {"converged", "exhausted"}

\* C19: for every universe and every scorer that always returns, backward
\* search terminates, and it ends either Converged, after a round in which
\* no removal improved the tracker, or with the current subset empty.
C19_BackwardTerminates ==
  /\ (strategy = "backward") => <>BackwardOver
  /\ [](BackwardOver =>
          \/ pc = "converged" /\ Improving(round_calls) = {}
                /\ Len(round_calls) = Len(current_features)
          \/ pc = "exhausted" /\ current_features = <<>>)

\* backward search has ended with an empty current subset
C19_Witness ==
  /\ strategy = "backward"
  /\ pc = "exhausted"
  /\ current_features = <<>>
  /\ Len(all_features) >= 2
  /\ best_features = <<>>

\* C20: when the feature universe is empty, each search fails with a
\* configuration error before any search step: it makes no scorer call,
\* updates no tracker and returns no result.
C20_EmptyUniverseRejected ==
  all_features = <<>> =>
    /\ n_calls = 0
    /\ evaluated = {}
    /\ pc \notin {"done", "converged", "exhausted"}

\* a step in which the scorer was called and raised
FailingCall == n_calls' = n_calls + 1 /\ evaluated' = evaluated

\* C21: when the scorer fails on a candidate subset the running search
\* aborts at that call: no retry and no further scorer call follows, no
\* substitute score reaches update, and the tracker holds exactly what it
\* held before the failing call.
C21_FailureAborts ==
  [][/\ pc # "failed"
     /\ FailingCall =>
          /\ pc' = "failed"
          /\ best_features' = best_features
          /\ best_mse' = best_mse
          /\ ret' = ret
          /\ round_calls' = round_calls
          /\ selected_feature' = selected_feature
          /\ removed_feature' = removed_feature]_vars

\* a search has been aborted by a failing scorer call after an earlier
\* candidate had improved the tracker
C21_Witness ==
  /\ pc = "failed"
  /\ n_calls >= 3
  /\ best_features # <<>>
  /\ best_mse < baseline
  /\ Len(round_calls) >= 1

\* C22: a nan or +infinity score is never an improvement: update returns
\* false and leaves the tracker as it was, the round's selection does not
\* change, no feature is added or removed for a candidate with such a score,
\* and no update ever stores such a score.
C22_NonFiniteNeverImproves ==
  /\ [][(UpdateStep /\ Last(round_calls').mse \in NonFinite) =>
          /\ ret' = FALSE
          /\ best_features' = best_features
          /\ best_mse' = best_mse
          /\ selected_feature' = selected_feature
          /\ removed_feature' = removed_feature]_vars
  /\ [][(pc # "start" /\ current_features' # current_features) =>
          \A c \in evaluated :
            c.subset = current_features' => c.mse \notin NonFinite]_vars
  /\ [][(pc # "start" /\ best_mse' # best_mse) =>
          best_mse' \notin NonFinite]_vars

\* a round has ended in which a nan candidate and a +infinity candidate were
\* both refused
C22_Witness ==
  /\ pc = "converged"
  /\ Len(round_calls) = 2
  /\ round_calls[1].mse = NaN
  /\ round_calls[2].mse = Inf
  /\ ~round_calls[1].improved
  /\ ~round_calls[2].improved
  /\ best_mse \in Scores

\* the position of feature f in the universe
Pos(f) == CHOOSE i \in 1..Len(all_features) : all_features[i] = f

\* a comes before b in lexicographic order of positions (same length)
LexLess(a, b) ==
  \E k \in 1..Len(a) :
    /\ Pos(a[k]) < Pos(b[k])
    /\ \A j \in 1..(k - 1) : a[j] = b[j]

\* the stored score after the first n calls of the run
StoredAfter(rc, n) == MinOf({baseline} \cup {rc[i].mse : i \in 1..n})

\* C23: exhaustive search calls the scorer in a fixed order: every subset of
\* size k before any subset of size k+1, within one size in lexicographic
\* order of the features' positions in the universe, and each score is
\* passed to update before the next call.
C23_ExhaustiveOrder ==
  strategy = "exhaustive" =>
    /\ \A i \in 1..Len(round_calls) :
         \A k \in 1..(Len(round_calls[i].subset) - 1) :
           Pos(round_calls[i].subset[k]) < Pos(round_calls[i].subset[k + 1])
    /\ \A i, j \in 1..Len(round_calls) :
         i < j =>
           \/ Len(round_calls[i].subset) < Len(round_calls[j].subset)
           \/ /\ Len(round_calls[i].subset) = Len(round_calls[j].subset)
              /\ LexLess(round_calls[i].subset, round_calls[j].subset)
    /\ \A i \in 1..Len(round_calls) :
         Len(round_calls[i].subset) \in 1..n_features
    /\ \A i \in 1..Len(round_calls) :
         round_calls[i].improved =
           (round_calls[i].mse < StoredAfter(round_calls, i - 1))
    /\ pc # "start" => best_mse = StoredAfter(round_calls, Len(round_calls))

\* the exhaustive search has finished on two features: three calls, the
\* second of which improved on the first
C23_Witness ==
  /\ strategy = "exhaustive"
  /\ pc = "done"
  /\ Len(round_calls) = 3
  /\ round_calls[1].subset = <<1>>
  /\ round_calls[2].subset = <<2>>
  /\ round_calls[3].subset = <<1, 2>>
  /\ round_calls[2].improved
  /\ ~round_calls[3].improved

\* the tracker holds the empty subset with the baseline, or a subset the
\* scorer was called on with the score it returned
TrackerConsistent ==
  \/ best_features = <<>> /\ best_mse = baseline
  \/ \E c \in evaluated : c.subset = best_features /\ c.mse = best_mse

\* C24: in every state of each of the three searches the tracker's pair is
\* either (empty subset, baseline) or (S, score of S) for a subset S the
\* scorer was called on; and in backward search the in-place removal of a
\* feature from the current subset never changes the tracker's subset,
\* although the tracker was built on that very list.
C24_TrackerPairConsistent ==
  /\ [](pc # "start" => TrackerConsistent)
  /\ [][(strategy = "backward" /\ pc # "start"
           /\ current_features' # current_features) =>
          /\ best_features' = best_features
          /\ best_mse' = best_mse]_vars

\* a backward search whose tracker was built on the list of all features
\* has taken a feature out of that list
C24_Witness ==
  /\ strategy = "backward"
  /\ pc = "bwd_while"
  /\ Len(all_features) = 2
  /\ Len(current_features) = 1
  /\ n_calls = 3
  /\ ~best_is_current
  /\ best_features = current_features
  /\ \E c \in evaluated : c.subset = all_features /\ c.mse > best_mse /\ c.mse > 0

\* a round of forward or backward search is about to start, or the search
\* has ended
RoundStartOrEnd ==
  /\ strategy \in {"forward", "backward"}
  /\ pc \in {"fwd_while", "bwd_while", "converged", "exhausted"}

\* C25: in forward and in backward search, at the start of every round and
\* at termination, the subset stored in the tracker equals the current
\* subset, same features in the same order.
C25_TrackerEqualsCurrent ==
  RoundStartOrEnd => best_features = current_features

\* the lowest of the baseline and the scores the dataset gives to the
\* non-empty subsets
GlobalMin == MinOf({baseline} \cup {g.mse : g \in given_scores})

\* C26: for the same universe, scorer and baseline the final score of
\* exhaustive search is at most the final score of forward search, under
\* every iteration order of forward search: exhaustive search ends with the
\* lowest score of the dataset, forward search never ends below it.
C26_ExhaustiveNotWorseThanForward ==
  /\ (strategy = "exhaustive" /\ pc = "done") => best_mse = GlobalMin
  /\ ForwardOver => best_mse >= GlobalMin

\* forward search has ended with a score above the one exhaustive search
\* ends with on the same dataset
C26_Witness ==
  /\ ForwardOver
  /\ Len(all_features) = 2
  /\ best_mse > GlobalMin
  /\ \E g \in given_scores : g.features = {1, 2} /\ g.mse = GlobalMin

\* the first position of rc whose score is the lowest of rc
FirstTied(rc) ==
  CHOOSE i \in TiedForBest(rc) : \A j \in TiedForBest(rc) : i <= j

TableScore(S) == (CHOOSE g \in given_scores : g.features = S).mse

\* the score of the candidate of a forward round: cur plus the feature f
CandidateScore(cur, f) == TableScore(Range(cur) \cup {f})

\* the features a forward round that starts from cur has to try
Candidates(cur) == Range(all_features) \ Range(cur)

\* the candidates of the round that starts from cur have distinct scores
RoundDistinct(cur) ==
  \A f, g \in Candidates(cur) :
    f # g => CandidateScore(cur, f) # CandidateScore(cur, g)

\* a candidate with the lowest score of the round that starts from cur
BestCandidate(cur) ==
  CHOOSE f \in Candidates(cur) :
    \A g \in Candidates(cur) : CandidateScore(cur, f) <= CandidateScore(cur, g)

\* the order-free greedy run from the subset cur and the stored score
\* stored: add the best candidate as long as it is strictly below stored
RECURSIVE Greedy(_, _)
Greedy(cur, stored) ==
  IF Candidates(cur) = {} THEN [features |-> cur, mse |-> stored]
  ELSE LET f == BestCandidate(cur) IN
         IF CandidateScore(cur, f) < stored
         THEN Greedy(Append(cur, f), CandidateScore(cur, f))
         ELSE [features |-> cur, mse |-> stored]

\* every round of the greedy run from cur has candidates with distinct scores
RECURSIVE DistinctAlong(_, _)
DistinctAlong(cur, stored) ==
  IF Candidates(cur) = {} THEN TRUE
  ELSE /\ RoundDistinct(cur)
       /\ LET f == BestCandidate(cur) IN
            CandidateScore(cur, f) < stored =>
              DistinctAlong(Append(cur, f), CandidateScore(cur, f))

\* s is the beginning of t
IsPrefix(s, t) == Len(s) <= Len(t) /\ SubSeq(t, 1, Len(s)) = s

\* C28: forward search iterates the remaining features as an unordered set;
\* when the candidate scores of every round are pairwise distinct, the
\* sequence of features it adds and its final tracker are the same under
\* every iteration order: those of the order-free greedy run.
C28_ForwardOrderIndependent ==
  (strategy = "forward" /\ pc \in {"fwd_while", "converged", "exhausted"}
     /\ DistinctAlong(<<>>, baseline)) =>
    LET g == Greedy(<<>>, baseline) IN
      /\ IsPrefix(current_features, g.features)
      /\ ForwardOver =>
           /\ current_features = g.features
           /\ best_features = g.features
           /\ best_mse = g.mse

\* forward search has ended after a first round in which both candidates
\* scored below the baseline, with distinct scores, and the second feature
\* of the universe was added
C28_Witness ==
  /\ ForwardOver
  /\ given_scores # {}
  /\ Len(all_features) = 2
  /\ DistinctAlong(<<>>, baseline)
  /\ current_features = <<2>>
  /\ best_features = <<2>>
  /\ TableScore({1}) < baseline

\* C29: scorer calls are bounded per round and per run.  A forward round
\* that starts with r of the p features makes exactly p - r calls, each on
\* a subset of size r + 1 that adds a feature not yet present, and a run
\* makes at most p(p+1)/2 calls.  A backward round that starts with s
\* features makes exactly s calls, each on a subset of size s - 1, and a
\* run makes at most 1 + p(p+1)/2 calls, the first full-universe call
\* included.
C29_CallsBounded ==
  /\ [][(FwdRoundOver /\ pc' # pc) =>
          /\ Len(round_calls) = Len(all_features) - Len(current_features)
          /\ \A i \in 1..Len(round_calls) :
               /\ Len(round_calls[i].subset) = Len(current_features) + 1
               /\ round_calls[i].feature \notin Range(current_features)
               /\ round_calls[i].subset
                    = Append(current_features, round_calls[i].feature)
          /\ \A i, j \in 1..Len(round_calls) :
               round_calls[i].feature = round_calls[j].feature => i = j]_vars
  /\ [][(BwdRoundOver /\ pc' # pc) =>
          /\ Len(round_calls) = Len(current_features)
          /\ \A i \in 1..Len(round_calls) :
               Len(round_calls[i].subset) = Len(current_features) - 1]_vars
  /\ [](strategy = "forward" =>
          2 * n_calls <= Len(all_features) * (Len(all_features) + 1))
  /\ [](strategy = "backward" =>
          2 * n_calls <= 2 + Len(all_features) * (Len(all_features) + 1))

\* backward search on three features has made all the calls a run can make
C29_Witness ==
  /\ strategy = "backward"
  /\ Len(all_features) = 3
  /\ pc = "converged"
  /\ Len(current_features) = 1
  /\ n_calls = 7

\* C30: forward and exhaustive search never call the scorer on the empty
\* subset; backward search calls it on the empty subset only in a round
\* that starts with a single-feature current subset, and only after such a
\* call can the winning subset it reports be empty.
C30_EmptySubsetOnlyFromSingleton ==
  /\ strategy \in {"forward", "exhaustive"} =>
       \A c \in evaluated : c.subset # <<>>
  /\ strategy = "backward" =>
       \A i \in 1..Len(round_calls) :
         round_calls[i].subset = <<>> => Len(current_features) = 1
  /\ (BackwardOver /\ best_features = <<>>) =>
       \E c \in evaluated : c.subset = <<>>

====
